---- MODULE Spec2Model ----
(***************************************************************************)
(* The documentation-site inputs of the repository: the site configuration *)
(* object of docs/.vitepress/config.mts and the front-matter block of the  *)
(* home page.  Both are static data handed to an external generator.  The  *)
(* model reads the front-matter text line by line and walks the            *)
(* configuration object field by field, recording the (field path, value)  *)
(* entries it meets, so that statements about the shipped inputs are       *)
(* checked on what the two files actually contain.                         *)
(***************************************************************************)
EXTENDS Integers, Sequences, FiniteSets, TLC

VARIABLES pagePos, pagePhase, pageStack, pageEntries, sitePos, siteSeen

vars == <<pagePos, pagePhase, pageStack, pageEntries, sitePos, siteSeen>>

(***************************************************************************)
(* config.mts: the object literal passed to defineConfig.                  *)
(***************************************************************************)
title == "Astria"

description == "The Shared Sequencer Network"

logo == [src |-> "/astria-logo-mini.svg", width |-> 24, height |-> 24]

\* the second nav link written without its leading slash
navRelativeLink ==
  << [text |-> "Home", link |-> "/"],
     [text |-> "Just Rollup", link |-> "Introduction"] >>

nav ==
  << [text |-> "Home", link |-> "/"],
     [text |-> "Just Rollup", link |-> "/Introduction"] >>

sidebar ==
  << [text |-> "Info",
      items |-> << [text |-> "Introduction", link |-> "/overview/introduction"],
                   [text |-> "Runtime API Examples", link |-> "/api-examples"] >>] >>

socialLinks ==
  << [icon |-> "github", link |-> "https://github.com/vuejs/vitepress"] >>

themeConfig ==
  [logo |-> logo, nav |-> nav, sidebar |-> sidebar, socialLinks |-> socialLinks]

siteConfig ==
  [title |-> title, description |-> description, themeConfig |-> themeConfig]

(***************************************************************************)
(* The home page file, one string per line of text.                        *)
(***************************************************************************)
frontMatter ==
  << "---",
     "# https://vitepress.dev/reference/default-theme-home-page",
     "layout: home",
     "",
     "hero:",
     "  name: \"Astria\"",
     "  text: \"The Shared Sequencer Network\"",
     "  tagline: \"The easiest way to deploy decentralized rollups.\"",
     "  image:",
     "    src: /astria-logo-inverted.svg",
     "    alt: Astria",
     "  actions:",
     "    - theme: brand",
     "      text: Just Deploy",
     "      link: /Introduction",
     "    - theme: alt",
     "      text: Introduction",
     "      link: /Introduction",
     "features:",
     "  - title: Learn",
     "    details: Astria is a shared sequencing network that allows many rollups to share a single decentralized network of sequencers.",
     "  - title: Feature B",
     "    details: Lorem ipsum dolor sit amet, consectetur adipiscing elit",
     "  - title: Feature C",
     "    details: Lorem ipsum dolor sit amet, consectetur adipiscing elit",
     "---",
     "",
     "" >>

(***************************************************************************)
(* Reading one line of the front-matter block (block-style YAML: nesting   *)
(* by indentation, "- " opening a sequence item, "key: value" entries).    *)
(***************************************************************************)
StartsWith(s, p) == Len(s) >= Len(p) /\ SubSeq(s, 1, Len(p)) = p

Drop(s, n) == SubSeq(s, n + 1, Len(s))

RECURSIVE Indent(_)
Indent(s) == IF StartsWith(s, " ") THEN 1 + Indent(Drop(s, 1)) ELSE 0

RECURSIVE IndexOf(_, _)
\* position of the first occurrence of the one-character string c in s, 0 if none
IndexOf(s, c) ==
  IF Len(s) = 0 THEN 0
  ELSE IF SubSeq(s, 1, 1) = c THEN 1
  ELSE LET r == IndexOf(Drop(s, 1), c) IN IF r = 0 THEN 0 ELSE r + 1

Unquote(s) ==
  IF Len(s) >= 2 /\ SubSeq(s, 1, 1) = "\"" /\ SubSeq(s, Len(s), Len(s)) = "\""
  THEN SubSeq(s, 2, Len(s) - 1)
  ELSE s

Body(s) == Drop(s, Indent(s))

IsFence(s) == s = "---"

IsBlank(s) == Body(s) = ""

IsComment(s) == StartsWith(Body(s), "#")

IsItem(s) == StartsWith(Body(s), "- ")

\* "key: value" once the indentation and an item marker are taken off
Pair(s) == IF IsItem(s) THEN Drop(Body(s), 2) ELSE Body(s)

\* column at which the key of the line starts
KeyIndent(s) == IF IsItem(s) THEN Indent(s) + 2 ELSE Indent(s)

Key(s) == SubSeq(Pair(s), 1, IndexOf(Pair(s), ":") - 1)

Value(s) ==
  LET rest == Drop(Pair(s), IndexOf(Pair(s), ":"))
  IN  Unquote(IF StartsWith(rest, " ") THEN Drop(rest, 1) ELSE rest)

(***************************************************************************)
(* The nesting context while reading: a stack of frames, a key frame       *)
(* [indent, key, idx = 0] for an open mapping key and an item frame        *)
(* [indent, key = "", idx = n] for the n-th item of the open sequence.     *)
(***************************************************************************)
RECURSIVE PopTo(_, _)
\* close every frame that starts at column i or further right
PopTo(stack, i) ==
  IF Len(stack) > 0 /\ stack[Len(stack)].indent >= i
  THEN PopTo(SubSeq(stack, 1, Len(stack) - 1), i)
  ELSE stack

RECURSIVE PopItems(_, _)
\* close every frame right of column i; an item frame at column i stays on top
PopItems(stack, i) ==
  IF Len(stack) > 0 /\ stack[Len(stack)].indent > i
  THEN PopItems(SubSeq(stack, 1, Len(stack) - 1), i)
  ELSE stack

\* the stack after the "- " of an item line at column i
OpenItem(stack, i) ==
  LET s == PopItems(stack, i)
      top == s[Len(s)]
  IN  IF Len(s) > 0 /\ top.indent = i /\ top.idx > 0
      THEN SubSeq(s, 1, Len(s) - 1) \o <<[indent |-> i, key |-> "", idx |-> top.idx + 1]>>
      ELSE PopTo(s, i) \o <<[indent |-> i, key |-> "", idx |-> 1]>>

\* the stack in which the key of line s is to be placed
Context(stack, s) ==
  IF IsItem(s) THEN OpenItem(stack, Indent(s)) ELSE PopTo(stack, KeyIndent(s))

RECURSIVE StackKeys(_)
StackKeys(stack) ==
  IF Len(stack) = 0 THEN << >>
  ELSE LET f == stack[Len(stack)]
           r == StackKeys(SubSeq(stack, 1, Len(stack) - 1))
       IN  IF f.idx = 0 THEN r \o <<f.key>> ELSE r

RECURSIVE StackIdx(_)
StackIdx(stack) ==
  IF Len(stack) = 0 THEN << >>
  ELSE LET f == stack[Len(stack)]
           r == StackIdx(SubSeq(stack, 1, Len(stack) - 1))
       IN  IF f.idx > 0 THEN r \o <<f.idx>> ELSE r

\* the entry a "key: value" line adds: the key path, the item indexes, the value
LineEntry(stack, s) ==
  LET c == Context(stack, s)
  IN  [keys |-> StackKeys(c) \o <<Key(s)>>, idx |-> StackIdx(c), value |-> Value(s)]

\* the stack after the line: a key with no value opens a nested block
AfterLine(stack, s) ==
  LET c == Context(stack, s)
  IN  IF Value(s) = ""
      THEN c \o <<[indent |-> KeyIndent(s), key |-> Key(s), idx |-> 0]>>
      ELSE c

(***************************************************************************)
(* The configuration object as (field path, item indexes, value) entries,  *)
(* in the order the literal lists them.                                    *)
(***************************************************************************)
NavEntries(keys, idx, items) ==
  [j \in 1..(2 * Len(items)) |->
     LET i == (j + 1) \div 2
     IN  IF j % 2 = 1
         THEN [keys |-> keys \o <<"text">>, idx |-> idx \o <<i>>, value |-> items[i].text]
         ELSE [keys |-> keys \o <<"link">>, idx |-> idx \o <<i>>, value |-> items[i].link]]

RECURSIVE SidebarEntries(_, _, _)
SidebarEntries(keys, groups, g) ==
  IF g > Len(groups) THEN << >>
  ELSE <<[keys |-> keys \o <<"text">>, idx |-> <<g>>, value |-> groups[g].text]>>
       \o NavEntries(keys \o <<"items">>, <<g>>, groups[g].items)
       \o SidebarEntries(keys, groups, g + 1)

SocialEntries(keys, links) ==
  [j \in 1..(2 * Len(links)) |->
     LET i == (j + 1) \div 2
     IN  IF j % 2 = 1
         THEN [keys |-> keys \o <<"icon">>, idx |-> <<i>>, value |-> links[i].icon]
         ELSE [keys |-> keys \o <<"link">>, idx |-> <<i>>, value |-> links[i].link]]

LogoEntries(keys, l) ==
  << [keys |-> keys \o <<"src">>, idx |-> << >>, value |-> l.src],
     [keys |-> keys \o <<"width">>, idx |-> << >>, value |-> l.width],
     [keys |-> keys \o <<"height">>, idx |-> << >>, value |-> l.height] >>

ScalarEntry(cfg, k) ==
  IF k \in DOMAIN cfg THEN <<[keys |-> <<k>>, idx |-> << >>, value |-> cfg[k]]>> ELSE << >>

siteEntries ==
  LET t == siteConfig.themeConfig
  IN  ScalarEntry(siteConfig, "title")
      \o ScalarEntry(siteConfig, "description")
      \o LogoEntries(<<"themeConfig", "logo">>, t.logo)
      \o NavEntries(<<"themeConfig", "nav">>, << >>, t.nav)
      \o SidebarEntries(<<"themeConfig", "sidebar">>, t.sidebar, 1)
      \o SocialEntries(<<"themeConfig", "socialLinks">>, t.socialLinks)

(***************************************************************************)
(* The state machine: the two inputs are read independently, one line of   *)
(* the page file or one field of the configuration object at a time.       *)
(***************************************************************************)
Init ==
  /\ pagePos = 0
  /\ pagePhase = "start"
  /\ pageStack = << >>
  /\ pageEntries = << >>
  /\ sitePos = 0
  /\ siteSeen = << >>

\* read the next line of the page file, up to the fence closing the block
ReadLine ==
  /\ pagePhase # "done"
  /\ pagePos < Len(frontMatter)
  /\ LET s == frontMatter[pagePos + 1]
     IN  /\ pagePos' = pagePos + 1
         /\ IF IsFence(s)
            THEN /\ pagePhase' = (IF pagePhase = "start" THEN "block" ELSE "done")
                 /\ UNCHANGED <<pageStack, pageEntries>>
            ELSE IF pagePhase = "start" \/ IsBlank(s) \/ IsComment(s)
            THEN UNCHANGED <<pagePhase, pageStack, pageEntries>>
            ELSE /\ pageStack' = AfterLine(pageStack, s)
                 /\ pageEntries' = Append(pageEntries, LineEntry(pageStack, s))
                 /\ UNCHANGED pagePhase
  /\ UNCHANGED <<sitePos, siteSeen>>

\* take the next field of the configuration object
ReadField ==
  /\ sitePos < Len(siteEntries)
  /\ sitePos' = sitePos + 1
  /\ siteSeen' = Append(siteSeen, siteEntries[sitePos + 1])
  /\ UNCHANGED <<pagePos, pagePhase, pageStack, pageEntries>>

Next == ReadLine \/ ReadField

Spec == Init /\ [][Next]_vars

(***************************************************************************)
(* Reading the recorded entries back as the sequences and records of the   *)
(* data model.                                                             *)
(***************************************************************************)
IsPrefix(p, q) == Len(p) <= Len(q) /\ SubSeq(q, 1, Len(p)) = p

Has(es, keys, idx) ==
  \E i \in 1..Len(es) : es[i].keys = keys /\ es[i].idx = idx

Get(es, keys, idx, default) ==
  IF Has(es, keys, idx)
  THEN es[CHOOSE i \in 1..Len(es) : es[i].keys = keys /\ es[i].idx = idx].value
  ELSE default

\* the item numbers met so far in the sequence at path keys, below the items idx
ItemsAt(es, keys, idx) ==
  { es[i].idx[Len(idx) + 1] :
      i \in { j \in 1..Len(es) : /\ IsPrefix(keys, es[j].keys)
                                 /\ Len(es[j].keys) > Len(keys)
                                 /\ IsPrefix(idx, es[j].idx)
                                 /\ Len(es[j].idx) > Len(idx) } }

ItemCount(es, keys, idx) == Cardinality(ItemsAt(es, keys, idx))

\* the values of field k of the items of the sequence at keys, in item order
Column(es, keys, idx, k) ==
  [i \in 1..ItemCount(es, keys, idx) |-> Get(es, keys \o <<k>>, idx \o <<i>>, "")]

\* positions in es of the entries of field k of the sequence at keys
Positions(es, keys, k) ==
  { i \in 1..Len(es) : es[i].keys = keys \o <<k>> }

LastKey(e) == e.keys[Len(e.keys)]

(***************************************************************************)
(* C10.  The inputs shipped in the repository satisfy the data model on    *)
(* the fields it names: the site configuration has the title "Astria", two *)
(* nav items, one sidebar group "Info" with two items and one social link  *)
(* with the icon "github"; every path-valued field starts with "/" and the *)
(* social link is an absolute URL; the hero has name, text, tagline and    *)
(* image and exactly two actions with the themes brand, alt in that order; *)
(* exactly the three features Learn, Feature B, Feature C follow, in file  *)
(* order; and the only fields outside the data model are themeConfig.logo  *)
(* and layout.  The per-entry conditions hold of every entry as soon as it *)
(* is read, the counts once an input has been read to its end.             *)
(***************************************************************************)
IsPath(l) == StartsWith(l, "/")

IsAbsoluteUrl(l) ==
  LET c == IndexOf(l, ":")
  IN  c > 1 /\ Len(l) > c + 2 /\ SubSeq(l, c, c + 2) = "://"

HeroThemes == {"brand", "alt"}

KnownIcons == {"github"}

SiteModelFields ==
  { <<"title">>, <<"description">>,
    <<"themeConfig", "nav", "text">>, <<"themeConfig", "nav", "link">>,
    <<"themeConfig", "sidebar", "text">>,
    <<"themeConfig", "sidebar", "items", "text">>,
    <<"themeConfig", "sidebar", "items", "link">>,
    <<"themeConfig", "socialLinks", "icon">>, <<"themeConfig", "socialLinks", "link">> }

PageModelFields ==
  { <<"hero", "name">>, <<"hero", "text">>, <<"hero", "tagline">>,
    <<"hero", "image", "src">>, <<"hero", "image", "alt">>,
    <<"hero", "actions", "theme">>, <<"hero", "actions", "text">>,
    <<"hero", "actions", "link">>,
    <<"features", "title">>, <<"features", "details">> }

\* a path is inside the data model when it leads to one of its fields
InModel(fields, keys) == \E f \in fields : IsPrefix(keys, f)

\* the fields outside the data model: the shortest unknown prefix of each entry's path
ExtraFields(fields, es) ==
  UNION { { SubSeq(es[i].keys, 1, n) :
              n \in { m \in 1..Len(es[i].keys) :
                        /\ ~InModel(fields, SubSeq(es[i].keys, 1, m))
                        /\ InModel(fields, SubSeq(es[i].keys, 1, m - 1)) } } :
          i \in 1..Len(es) }

SiteEntryOk(e) ==
  /\ e.keys \in {<<"themeConfig", "nav", "link">>,
                 <<"themeConfig", "sidebar", "items", "link">>} => IsPath(e.value)
  /\ e.keys = <<"themeConfig", "socialLinks", "link">> => IsAbsoluteUrl(e.value)
  /\ e.keys = <<"themeConfig", "socialLinks", "icon">> => e.value \in KnownIcons
  /\ e.keys \in SiteModelFields => e.value # ""

PageEntryOk(e) ==
  /\ e.keys \in {<<"hero", "actions", "link">>, <<"hero", "image", "src">>} => IsPath(e.value)
  /\ e.keys = <<"hero", "actions", "theme">> => e.value \in HeroThemes
  /\ e.keys \in PageModelFields => e.value # ""

SiteRead == sitePos = Len(siteEntries)

PageRead == pagePhase = "done"

SiteShape ==
  /\ Get(siteSeen, <<"title">>, << >>, "") = "Astria"
  /\ Has(siteSeen, <<"description">>, << >>)
  /\ ItemCount(siteSeen, <<"themeConfig", "nav">>, << >>) = 2
  /\ Positions(siteSeen, <<"themeConfig", "nav">>, "link")
       = { p + 1 : p \in Positions(siteSeen, <<"themeConfig", "nav">>, "text") }
  /\ Column(siteSeen, <<"themeConfig", "sidebar">>, << >>, "text") = <<"Info">>
  /\ ItemCount(siteSeen, <<"themeConfig", "sidebar", "items">>, <<1>>) = 2
  /\ Cardinality(Positions(siteSeen, <<"themeConfig", "sidebar", "items">>, "link")) = 2
  /\ Cardinality(Positions(siteSeen, <<"themeConfig", "sidebar", "items">>, "text")) = 2
  /\ Column(siteSeen, <<"themeConfig", "socialLinks">>, << >>, "icon") = <<"github">>
  /\ Cardinality(Positions(siteSeen, <<"themeConfig", "socialLinks">>, "link")) = 1
  /\ ExtraFields(SiteModelFields, siteSeen) = { <<"themeConfig", "logo">> }

PageShape ==
  /\ \A k \in {"name", "text", "tagline"} : Has(pageEntries, <<"hero", k>>, << >>)
  /\ \A k \in {"src", "alt"} : Has(pageEntries, <<"hero", "image", k>>, << >>)
  /\ Column(pageEntries, <<"hero", "actions">>, << >>, "theme") = <<"brand", "alt">>
  /\ \A k \in {"theme", "text", "link"} :
       Cardinality(Positions(pageEntries, <<"hero", "actions">>, k)) = 2
  /\ Column(pageEntries, <<"features">>, << >>, "title")
       = <<"Learn", "Feature B", "Feature C">>
  /\ \A k \in {"title", "details"} :
       Cardinality(Positions(pageEntries, <<"features">>, k)) = 3
  /\ \A p \in Positions(pageEntries, <<"hero", "actions">>, "theme") :
       \A q \in Positions(pageEntries, <<"features">>, "title") : p < q
  /\ ExtraFields(PageModelFields, pageEntries) = { <<"layout">> }

\* C10: the shipped site configuration and home-page front matter satisfy the
\* data model (valid links, themes and icon; the stated counts, names and orders)
\* and have no field outside it other than themeConfig.logo and layout.
ShippedInputsSatisfyDataModel ==
  /\ \A i \in 1..Len(siteSeen) : SiteEntryOk(siteSeen[i])
  /\ \A i \in 1..Len(pageEntries) : PageEntryOk(pageEntries[i])
  /\ ExtraFields(SiteModelFields, siteSeen) \subseteq { <<"themeConfig", "logo">> }
  /\ ExtraFields(PageModelFields, pageEntries) \subseteq { <<"layout">> }
  /\ SiteRead => SiteShape
  /\ PageRead => PageShape

\* both inputs have been read to their end
BothInputsRead ==
  /\ SiteRead /\ Len(siteSeen) = 16
  /\ PageRead /\ pagePos = 26 /\ Len(pageEntries) = 22

====
